---- MODULE Spec2Model ----
(***************************************************************************)
(* A model of dwb_critics::CollisionChecker (collision_checker.cpp), of    *)
(* the grid line iterator it drives, and of the GoalUpdater decorator as   *)
(* its test pins it down.                                                  *)
(*                                                                         *)
(* World coordinates are integers; one grid cell is Resolution world units *)
(* wide, so a vertex can sit on a cell border or strictly inside a cell.   *)
(* Headings are quarter turns 0..3, for which sin and cos are exact.       *)
(***************************************************************************)
EXTENDS Integers, Sequences, FiniteSets, TLC

\* ------------------------------------------------------------ bounds

\* Cells per side of the costmap.
GridSize == 4
\* World units per cell.
Resolution == 2
\* Largest message stamp, and the most updates published and not yet
\* delivered (both topics together).
MaxStamp == 3
MaxQueue == 2
\* The most costmaps the provider publishes after the first one.
MaxPublished == 1

\* ------------------------------------------------------------ costmap

LETHAL_OBSTACLE == 254
NO_INFORMATION == 255

Cells == (0 .. GridSize - 1) \X (0 .. GridSize - 1)

\* Graded costs used on marked cells: a middle value and the largest cost
\* that is not a sentinel.
GradedCosts == {100, 253}
MarkCosts == GradedCosts \cup {LETHAL_OBSTACLE, NO_INFORMATION}

\* Costmap2D::worldToMap: fails below the origin (at world 0) or at/after the
\* last cell; otherwise truncates (wx - origin) / resolution.
worldToMap(wx, wy) ==
  IF wx < 0 \/ wy < 0
    THEN [ok |-> FALSE, x |-> 0, y |-> 0]
    ELSE LET mx == wx \div Resolution
             my == wy \div Resolution
         IN  IF mx < GridSize /\ my < GridSize
               THEN [ok |-> TRUE, x |-> mx, y |-> my]
               ELSE [ok |-> FALSE, x |-> mx, y |-> my]

\* Costmap2D::getCost on a snapshot.
getCost(map, x, y) == map[<<x, y>>]

FreeMap == [c \in Cells |-> 0]

\* The cells a costmap of the model may mark.
MarkedCells == {<<0, 0>>, <<1, 1>>, <<2, 1>>, <<2, 2>>}

Costmaps ==
  {FreeMap}
  \cup {[FreeMap EXCEPT ![c] = v] : c \in MarkedCells, v \in MarkCosts}
  \cup {[FreeMap EXCEPT ![c] = v, ![d] = w] :
          c \in {<<1, 1>>}, d \in MarkedCells \ {<<1, 1>>},
          v \in MarkCosts, w \in MarkCosts}

\* ------------------------------------------------------------ geometry

Cos(q) == CASE q = 0 -> 1 [] q = 1 -> 0 [] q = 2 -> -1 [] OTHER -> 0
Sin(q) == CASE q = 0 -> 0 [] q = 1 -> 1 [] q = 2 -> 0 [] OTHER -> -1
\* -theta for a heading in quarter turns.
Neg(q) == (4 - q) % 4

\* nav2_costmap_2d::transformFootprint: rotate every point by theta about the
\* origin, then translate by (x, y); count and order kept.
transformFootprint(x, y, theta, fp) ==
  [k \in 1 .. Len(fp) |->
     <<x + (fp[k][1] * Cos(theta) - fp[k][2] * Sin(theta)),
       y + (fp[k][1] * Sin(theta) + fp[k][2] * Cos(theta))>>]

\* ------------------------------------------------------------ line iterator

\* LineIterator(x0, y0, x1, y1): integer Bresenham; the dominant axis is x when
\* deltax >= deltay, the accumulator starts at half the dominant delta.
Abs(n) == IF n < 0 THEN -n ELSE n

LineInit(x0, y0, x1, y1) ==
  LET dx == Abs(x1 - x0)
      dy == Abs(y1 - y0)
      sx == IF x1 >= x0 THEN 1 ELSE -1
      sy == IF y1 >= y0 THEN 1 ELSE -1
  IN  IF dx >= dy
        THEN [x |-> x0, y |-> y0, curpixel |-> 0, numpixels |-> dx,
              den |-> dx, num |-> dx \div 2, numadd |-> dy,
              xinc1 |-> 0, xinc2 |-> sx, yinc1 |-> sy, yinc2 |-> 0]
        ELSE [x |-> x0, y |-> y0, curpixel |-> 0, numpixels |-> dy,
              den |-> dy, num |-> dy \div 2, numadd |-> dx,
              xinc1 |-> sx, xinc2 |-> 0, yinc1 |-> 0, yinc2 |-> sy]

LineIsValid(l) == l.curpixel <= l.numpixels

LineAdvance(l) ==
  LET n == l.num + l.numadd
      over == n >= l.den
  IN  [l EXCEPT !.num = IF over THEN n - l.den ELSE n,
                !.x = l.x + (IF over THEN l.xinc1 ELSE 0) + l.xinc2,
                !.y = l.y + (IF over THEN l.yinc1 ELSE 0) + l.yinc2,
                !.curpixel = l.curpixel + 1]

NoLine == LineInit(0, 0, 0, 0)

\* The cells a line iterator still has to visit, in order.
RECURSIVE LineRest(_)
LineRest(l) ==
  IF LineIsValid(l) THEN <<(<<l.x, l.y>>)>> \o LineRest(LineAdvance(l)) ELSE <<>>

\* The cells of the segment (x0,y0)->(x1,y1), in the order they are visited.
LineCells(x0, y0, x1, y1) == LineRest(LineInit(x0, y0, x1, y1))

\* ------------------------------------------------------------ state

VARIABLES
  \* collaborators
  costmap,        \* the costmap provider's current snapshot: cell -> cost
  published,      \* how many costmaps the provider has published after the first
  robot,          \* the robot's global pose [x, y, theta]
  tfOk,           \* whether the pose lookup (tf) succeeds
  provided,       \* the footprint provider: [avail, points]
  \* one isCollisionFree(pose) call
  pc,             \* where the call stands
  pose,           \* the candidate pose
  footprint,      \* scorePose's local footprint
  i,              \* index of the loop over the footprint's edges (0-based)
  closing,        \* whether the edge being rasterized is the closing edge
  line,           \* the LineIterator of lineCost
  line_cost,      \* lineCost's running maximum
  footprint_cost, \* scorePose's running maximum
  outcome,        \* how scorePose ended: a score or what it threw
  result,         \* how isCollisionFree ended
  asked,          \* the collaborators requested so far in this call
  failed,         \* the lookup that was unavailable in this call, if any
  reads,          \* the cells whose cost pointCost has read, in order
  costmap_,       \* scorePose's local costmap_: the snapshot got at line 62
  log,            \* the worldToMap and getCost calls of this call, in order
  \* lineCost on a segment and on the same segment reversed
  seg,            \* the segment [x0, y0, x1, y1] in grid coordinates
  tdir,           \* "fwd", "bwd", "done", or "threw" after a sentinel cell
  tline,          \* the LineIterator of the running lineCost call
  tcost,          \* its running maximum (line_cost)
  fwd, bwd,       \* the cells each direction has visited, in order
  fwdCost, bwdCost, \* what each lineCost call returned (-1: not yet)
  \* GoalUpdater
  in_goal,        \* blackboard entry behind input_goal
  in_goals,       \* blackboard entry behind input_goals
  goal_q,         \* goal_update messages published and not yet delivered
  goals_q,        \* goals_update messages published and not yet delivered
  last_goal_received,  \* [set, msg]
  last_goals_received, \* [set, msg]
  heard_goal,     \* the goal_update messages the last tick delivered
  heard_goals,    \* the goals_update messages the last tick delivered
  out_goal,       \* blackboard entry behind output_goal: [set, val]
  out_goals,      \* blackboard entry behind output_goals: [set, val]
  child,          \* the status the child returned to the last tick
  status          \* the GoalUpdater node's status

ccVars == <<costmap, published, robot, tfOk, provided, pc, pose, footprint, i,
            closing, line, line_cost, footprint_cost, outcome, result, asked,
            failed, reads, costmap_, log>>

traceVars == <<seg, tdir, tline, tcost, fwd, bwd, fwdCost, bwdCost>>

guVars == <<in_goal, in_goals, goal_q, goals_q, last_goal_received,
            last_goals_received, heard_goal, heard_goals, out_goal, out_goals,
            child, status>>

vars == <<ccVars, traceVars, guVars>>

\* ------------------------------------------------------------ inputs

\* Footprint shapes about the origin at heading 0, vertices in order.
Square1 == << <<-1, -1>>, <<1, -1>>, <<1, 1>>, <<-1, 1>> >>
Square2 == << <<-2, -2>>, <<2, -2>>, <<2, 2>>, <<-2, 2>> >>
Wedge   == << <<-2, -2>>, <<2, 0>>, <<-2, 2>> >>
Bar     == << <<-2, 0>>, <<2, 0>> >>
Dot     == << <<0, 0>> >>
Shapes  == {Square1, Square2, Wedge, Bar, Dot, <<>>}

Pose(x, y, theta) == [x |-> x, y |-> y, theta |-> theta]

RobotPoses == {Pose(0, 0, 0), Pose(4, 4, 1), Pose(2, 4, 3)}

PoseCoords == {-1, 2, 4, 6}
CandidatePoses == {Pose(x, y, t) : x \in PoseCoords, y \in PoseCoords, t \in 0 .. 3}

\* ------------------------------------------------------------ outcomes

NoOutcome == [kind |-> "none", msg |-> "", val |-> 0]
Score(v) == [kind |-> "score", msg |-> "", val |-> v]
Threw(kind, msg) == [kind |-> kind, msg |-> msg, val |-> 0]

IllegalTrajectory(msg) == Threw("IllegalTrajectory", msg)
PlannerException(msg) == Threw("PlannerException", msg)
\* what CostmapSubscriber::getCostmap throws when it has no costmap
RuntimeError == Threw("runtime_error", "Costmap is not available")

Max(a, b) == IF a < b THEN b ELSE a

\* A costmap snapshot as getCostmap hands it out: the id-th published costmap.
Snapshot(id, map) == [id |-> id, map |-> map]
NoCostmap == Snapshot(-1, FreeMap)

\* costmap_->worldToMap(wx, wy, ...) made on snapshot snap, and whether it
\* succeeded.
Converted(snap, wx, wy) ==
  [op |-> "worldToMap", arg |-> <<wx, wy>>, on |-> snap.id,
   ok |-> worldToMap(wx, wy).ok]

\* costmap_->getCost(x, y) made on snapshot snap, and whether the cost was an
\* ordinary one.
Looked(snap, x, y) ==
  [op |-> "getCost", arg |-> <<x, y>>, on |-> snap.id,
   ok |-> getCost(snap.map, x, y) \notin {LETHAL_OBSTACLE, NO_INFORMATION}]

\* ------------------------------------------------------------ CollisionChecker

\* unorientFootprint with both steps folded into one transformFootprint call,
\* which rotates before it translates.
unorientFootprintOneCall(oriented_footprint, current_pose) ==
  transformFootprint(-current_pose.x, -current_pose.y,
                     Neg(current_pose.theta), oriented_footprint)

\* unorientFootprint, after its pose lookup succeeded: translate by (-x, -y),
\* then rotate by -theta.
unorientFootprint(oriented_footprint, current_pose) ==
  LET temp == transformFootprint(-current_pose.x, -current_pose.y, 0,
                                 oriented_footprint)
  IN  transformFootprint(0, 0, Neg(current_pose.theta), temp)

\* pointCost without the NO_INFORMATION branch.
pointCostLethalOnly(map, x, y) ==
  LET cost == getCost(map, x, y)
  IN  IF cost = LETHAL_OBSTACLE
        THEN IllegalTrajectory("Trajectory Hits Obstacle.")
        ELSE Score(cost)

\* pointCost, after its costmap lookup succeeded: the cell's cost, or the
\* exception for a sentinel.
pointCost(map, x, y) ==
  LET cost == getCost(map, x, y)
  IN  IF cost = LETHAL_OBSTACLE
        THEN IllegalTrajectory("Trajectory Hits Obstacle.")
      ELSE IF cost = NO_INFORMATION
        THEN IllegalTrajectory("Trajectory Hits Unknown Region.")
      ELSE Score(cost)

\* lineCost's iterator with its arguments passed on in the order lineCost
\* receives them.
lineCostIteratorArgsInOrder(x0, x1, y0, y1) == LineInit(x0, x1, y0, y1)

\* lineCost(x0, x1, y0, y1): its iterator over (x0,y0)->(x1,y1).
lineCostIterator(x0, x1, y0, y1) == LineInit(x0, y0, x1, y1)

\* The loop condition i < footprint.size() - 1: size() is unsigned, so for an
\* empty footprint size() - 1 wraps to the largest value and every i passes.
LoopCond(k, n) == IF n = 0 THEN TRUE ELSE k < n - 1

\* isCollisionFree without its second catch clause.
isCollisionFreeResultOneCatch(o) ==
  CASE o.kind = "score" -> IF o.val < 0 THEN "false" ELSE "true"
    [] o.kind = "IllegalTrajectory" -> "false"
    [] o.kind = "crash" -> "crashed"
    [] OTHER -> "raised"

\* isCollisionFree's handling of how scorePose ended.
isCollisionFreeResult(o) ==
  CASE o.kind = "score" -> IF o.val < 0 THEN "false" ELSE "true"
    [] o.kind = "IllegalTrajectory" -> "false"
    [] o.kind = "PlannerException" -> "false"
    [] o.kind = "crash" -> "crashed"
    [] OTHER -> "raised"

CallVarsReset ==
  /\ footprint' = <<>>
  /\ i' = 0
  /\ closing' = FALSE
  /\ line' = NoLine
  /\ line_cost' = 0
  /\ footprint_cost' = 0
  /\ outcome' = NoOutcome
  /\ result' = "none"
  /\ asked' = {}
  /\ failed' = "none"
  /\ reads' = <<>>
  /\ costmap_' = NoCostmap
  /\ log' = <<>>

EnvUnchanged ==
  UNCHANGED <<costmap, published, robot, tfOk, provided, traceVars, guVars>>

\* scorePose ends with outcome o.
Finish(o) ==
  /\ outcome' = o
  /\ pc' = "scorePoseDone"

\* A caller invokes isCollisionFree(p).
Call ==
  /\ pc = "idle"
  /\ \E p \in CandidatePoses : pose' = p
  /\ pc' = "scorePose"
  /\ CallVarsReset
  /\ EnvUnchanged

\* The caller has taken the call's result; the call's locals are gone.
CallOver ==
  /\ pc = "returned"
  /\ pc' = "idle"
  /\ pose' = Pose(0, 0, 0)
  /\ CallVarsReset
  /\ EnvUnchanged

\* scorePose asking for the footprint before it converts the pose.
ScorePoseBeginFootprintFirst ==
  /\ pc = "scorePose"
  /\ \E ok \in BOOLEAN :
       IF ~ok
         THEN /\ Finish(PlannerException("Costmap is not available"))
              /\ failed' = "costmap"
              /\ asked' = asked \cup {"costmap"}
              /\ footprint' = footprint
              /\ UNCHANGED <<costmap_, log>>
         ELSE /\ asked' = asked \cup {"costmap", "footprint"}
              /\ costmap_' = Snapshot(published, costmap)
              /\ IF ~provided.avail
                   THEN /\ Finish(PlannerException("Footprint not available."))
                        /\ failed' = "footprint"
                        /\ footprint' = footprint
                        /\ log' = log
                   ELSE /\ failed' = failed
                        /\ footprint' = provided.points
                        /\ log' = Append(log, Converted(costmap_', pose.x, pose.y))
                        /\ IF ~worldToMap(pose.x, pose.y).ok
                             THEN Finish(IllegalTrajectory("Trajectory Goes Off Grid."))
                             ELSE pc' = "unorient" /\ outcome' = outcome
  /\ UNCHANGED <<pose, i, closing, line, line_cost, footprint_cost, result, reads>>
  /\ EnvUnchanged

\* scorePose, lines 60-71: the costmap lookup and the pose's grid conversion.
ScorePoseBegin ==
  /\ pc = "scorePose"
  /\ asked' = asked \cup {"costmap"}
  /\ \E ok \in BOOLEAN :
       IF ~ok
         THEN /\ Finish(PlannerException("Costmap is not available"))
              /\ failed' = "costmap"
              /\ UNCHANGED <<costmap_, log>>
         ELSE /\ failed' = failed
              /\ costmap_' = Snapshot(published, costmap)
              /\ log' = Append(log, Converted(costmap_', pose.x, pose.y))
              /\ IF ~worldToMap(pose.x, pose.y).ok
                   THEN Finish(IllegalTrajectory("Trajectory Goes Off Grid."))
                   ELSE pc' = "getFootprint" /\ outcome' = outcome
  /\ UNCHANGED <<pose, footprint, i, closing, line, line_cost, footprint_cost,
                 result, reads>>
  /\ EnvUnchanged

\* scorePose, lines 73-76: the footprint request.
GetFootprint ==
  /\ pc = "getFootprint"
  /\ asked' = asked \cup {"footprint"}
  /\ IF ~provided.avail
       THEN /\ Finish(PlannerException("Footprint not available."))
            /\ failed' = "footprint"
            /\ footprint' = footprint
       ELSE /\ footprint' = provided.points
            /\ pc' = "unorient"
            /\ UNCHANGED <<outcome, failed>>
  /\ UNCHANGED <<pose, i, closing, line, line_cost, footprint_cost, result, reads,
                 costmap_, log>>
  /\ EnvUnchanged

\* scorePose, lines 78-85: de-orient with the robot pose (unorientFootprint,
\* lines 190-206), project to the candidate pose, start the walk.
UnorientAndProject ==
  /\ pc = "unorient"
  /\ asked' = asked \cup {"robotPose"}
  /\ IF ~tfOk
       THEN /\ Finish(PlannerException("Robot pose unavailable."))
            /\ failed' = "robotPose"
            /\ footprint' = footprint
       ELSE /\ footprint' = transformFootprint(pose.x, pose.y, pose.theta,
                                               unorientFootprint(footprint, robot))
            /\ pc' = "edge"
            /\ UNCHANGED <<outcome, failed>>
  /\ i' = 0
  /\ line_cost' = 0
  /\ footprint_cost' = 0
  /\ UNCHANGED <<pose, closing, line, result, reads, costmap_, log>>
  /\ EnvUnchanged

\* The two ends of the edge scorePose takes up next: edge i of the loop
\* (lines 88-99), or the closing edge back() -> front() (lines 105-116).
EdgeEnds(fp, k) ==
  IF LoopCond(k, Len(fp))
    THEN [from |-> fp[k + 1], to |-> fp[k + 2], closing |-> FALSE,
          msg |-> "Footprint Goes Off Grid at map."]
    ELSE [from |-> fp[Len(fp)], to |-> fp[1], closing |-> TRUE,
          msg |-> "Footprint Goes Off Grid."]

\* scorePose converting both ends of an edge before it looks at either result.
EdgeBeginConvertsBoth ==
  /\ pc = "edge"
  /\ Len(footprint) > 0
  /\ LET e == EdgeEnds(footprint, i)
         a == worldToMap(e.from[1], e.from[2])
         b == worldToMap(e.to[1], e.to[2])
     IN  /\ closing' = e.closing
         /\ log' = log \o <<Converted(costmap_, e.from[1], e.from[2]),
                             Converted(costmap_, e.to[1], e.to[2])>>
         /\ IF ~a.ok
              THEN Finish(IllegalTrajectory(e.msg)) /\ UNCHANGED <<line, line_cost>>
            ELSE IF ~b.ok
              THEN /\ Finish(IllegalTrajectory("Footprint Goes Off Grid."))
                   /\ UNCHANGED <<line, line_cost>>
            ELSE /\ line' = lineCostIterator(a.x, b.x, a.y, b.y)
                 /\ line_cost' = 0
                 /\ pc' = "line"
                 /\ outcome' = outcome
  /\ UNCHANGED <<pose, footprint, i, footprint_cost, result, asked, failed, reads,
                 costmap_>>
  /\ EnvUnchanged

\* scorePose, lines 88-101 and 105-118: convert the edge's two ends and enter
\* lineCost (lines 127-130).
EdgeBegin ==
  /\ pc = "edge"
  /\ Len(footprint) > 0
  /\ LET e == EdgeEnds(footprint, i)
         a == worldToMap(e.from[1], e.from[2])
         b == worldToMap(e.to[1], e.to[2])
         fromLog == Converted(costmap_, e.from[1], e.from[2])
         toLog == Converted(costmap_, e.to[1], e.to[2])
     IN  /\ closing' = e.closing
         /\ log' = IF ~a.ok THEN Append(log, fromLog)
                            ELSE log \o <<fromLog, toLog>>
         /\ IF ~a.ok
              THEN Finish(IllegalTrajectory(e.msg)) /\ UNCHANGED <<line, line_cost>>
            ELSE IF ~b.ok
              THEN /\ Finish(IllegalTrajectory("Footprint Goes Off Grid."))
                   /\ UNCHANGED <<line, line_cost>>
            ELSE /\ line' = lineCostIterator(a.x, b.x, a.y, b.y)
                 /\ line_cost' = 0
                 /\ pc' = "line"
                 /\ outcome' = outcome
  /\ UNCHANGED <<pose, footprint, i, footprint_cost, result, asked, failed, reads,
                 costmap_>>
  /\ EnvUnchanged

\* What reading footprint[0] of an empty footprint can lead to: the process
\* dies, or the garbage read fails its grid conversion.
UndefinedOutcomes ==
  {Threw("crash", ""), IllegalTrajectory("Footprint Goes Off Grid at map.")}

\* scorePose, lines 88-90 with an empty footprint: the loop is entered (see
\* LoopCond) and footprint[0] is read out of bounds.
EdgeUndefined ==
  /\ pc = "edge"
  /\ Len(footprint) = 0
  /\ LoopCond(i, Len(footprint))
  /\ \E o \in UndefinedOutcomes : Finish(o)
  /\ UNCHANGED <<pose, footprint, i, closing, line, line_cost, footprint_cost,
                 result, asked, failed, reads, costmap_, log>>
  /\ EnvUnchanged

\* lineCost's loop body, lines 130-136, with pointCost, lines 141-156: the
\* costmap lookup, the cell's cost, the running maximum, advance().
LinePoint ==
  /\ pc = "line"
  /\ LineIsValid(line)
  /\ asked' = asked \cup {"costmapCell"}
  /\ \E ok \in BOOLEAN :
       IF ~ok
         THEN /\ Finish(RuntimeError)
              /\ failed' = "costmapCell"
              /\ UNCHANGED <<line, line_cost, reads, log>>
         ELSE LET now == Snapshot(published, costmap)
                  point_cost == pointCost(now.map, line.x, line.y)
              IN  /\ reads' = Append(reads, <<line.x, line.y>>)
                  /\ log' = Append(log, Looked(now, line.x, line.y))
                  /\ failed' = failed
                  /\ IF point_cost.kind # "score"
                       THEN Finish(point_cost) /\ UNCHANGED <<line, line_cost>>
                       ELSE /\ line_cost' = IF line_cost < point_cost.val
                                              THEN point_cost.val ELSE line_cost
                            /\ line' = LineAdvance(line)
                            /\ UNCHANGED <<pc, outcome>>
  /\ UNCHANGED <<pose, footprint, i, closing, footprint_cost, result, costmap_>>
  /\ EnvUnchanged

\* scorePose keeping the last edge's cost instead of the largest.
LineEndKeepsLast ==
  /\ pc = "line"
  /\ ~LineIsValid(line)
  /\ footprint_cost' = line_cost
  /\ IF closing
       THEN Finish(Score(footprint_cost')) /\ i' = i
       ELSE pc' = "edge" /\ i' = i + 1 /\ outcome' = outcome
  /\ UNCHANGED <<pose, footprint, closing, line, line_cost, result, asked,
                 failed, reads, costmap_, log>>
  /\ EnvUnchanged

\* lineCost returns (line 138); scorePose folds the edge's cost into the
\* footprint's (lines 102, 119) and goes on to the next edge or returns
\* (line 122).
LineEnd ==
  /\ pc = "line"
  /\ ~LineIsValid(line)
  /\ footprint_cost' = Max(line_cost, footprint_cost)
  /\ IF closing
       THEN Finish(Score(footprint_cost')) /\ i' = i
       ELSE pc' = "edge" /\ i' = i + 1 /\ outcome' = outcome
  /\ UNCHANGED <<pose, footprint, closing, line, line_cost, result, asked,
                 failed, reads, costmap_, log>>
  /\ EnvUnchanged

\* isCollisionFree, lines 43-54: what it makes of scorePose's end.
IsCollisionFreeReturn ==
  /\ pc = "scorePoseDone"
  /\ result' = isCollisionFreeResult(outcome)
  /\ pc' = "returned"
  /\ UNCHANGED <<pose, footprint, i, closing, line, line_cost, footprint_cost,
                 outcome, asked, failed, reads, costmap_, log>>
  /\ EnvUnchanged

\* The costmaps the provider publishes while the checker is in use.
PublishedCostmaps ==
  {FreeMap} \cup {[FreeMap EXCEPT ![<<1, 1>>] = c] : c \in GradedCosts \cup {LETHAL_OBSTACLE}}

\* The costmap provider receives a new costmap; getCostmap hands it out from
\* now on. Snapshots handed out before stay as they were.
CostmapUpdate ==
  /\ published < MaxPublished
  /\ \E m \in PublishedCostmaps \ {costmap} : costmap' = m
  /\ published' = published + 1
  /\ UNCHANGED <<robot, tfOk, provided, pc, pose, footprint, i, closing, line,
                 line_cost, footprint_cost, outcome, result, asked, failed,
                 reads, costmap_, log>>
  /\ UNCHANGED <<traceVars, guVars>>

\* ------------------------------------------------------------ lineCost, both ways

\* lineCost's loop body, lines 130-136, with pointCost, lines 145-155, on the
\* costmap at hand: the visited cell is recorded.
TracePoint ==
  /\ tdir \in {"fwd", "bwd"}
  /\ LineIsValid(tline)
  /\ LET point_cost == pointCost(costmap, tline.x, tline.y)
         cell == <<tline.x, tline.y>>
     IN  /\ fwd' = IF tdir = "fwd" THEN Append(fwd, cell) ELSE fwd
         /\ bwd' = IF tdir = "bwd" THEN Append(bwd, cell) ELSE bwd
         /\ IF point_cost.kind # "score"
              THEN tdir' = "threw" /\ UNCHANGED <<tline, tcost>>
              ELSE /\ tcost' = IF tcost < point_cost.val
                                 THEN point_cost.val ELSE tcost
                   /\ tline' = LineAdvance(tline)
                   /\ tdir' = tdir
  /\ UNCHANGED <<seg, fwdCost, bwdCost>>
  /\ UNCHANGED <<ccVars, guVars>>

\* lineCost returns its maximum (line 138); after the forward call the same
\* segment is traced from its other end.
TraceEnd ==
  /\ tdir \in {"fwd", "bwd"}
  /\ ~LineIsValid(tline)
  /\ IF tdir = "fwd"
       THEN /\ fwdCost' = tcost
            /\ tdir' = "bwd"
            /\ tline' = lineCostIterator(seg.x1, seg.x0, seg.y1, seg.y0)
            /\ tcost' = 0
            /\ bwdCost' = bwdCost
       ELSE /\ bwdCost' = tcost
            /\ tdir' = "done"
            /\ UNCHANGED <<fwdCost, tline, tcost>>
  /\ UNCHANGED <<seg, fwd, bwd>>
  /\ UNCHANGED <<ccVars, guVars>>

\* ------------------------------------------------------------ GoalUpdater

Goal(s, x) == [stamp |-> s, x |-> x]
Goals(s, gs) == [stamp |-> s, goals |-> gs]

Stamps == 1 .. MaxStamp
\* the updates a test may publish: goal.pose.position.x is 2.0 or 3.0
GoalUpdates == {Goal(s, x) : s \in Stamps, x \in {2, 3}}
GoalsUpdates == {Goals(s, <<Goal(s, 2)>>) : s \in Stamps}

Unset(v) == [set |-> FALSE, msg |-> v]
NoGoal == Goal(0, 0)
NoGoals == Goals(0, <<>>)

\* A callback that keeps the first message it is given.
callback_keeps_first(last, q) ==
  IF q = <<>> THEN last ELSE [set |-> TRUE, msg |-> q[1]]

\* The subscription callback run on every queued message in turn: each
\* message overwrites the one kept.
callback_updated_goal(last, q) ==
  IF q = <<>> THEN last ELSE [set |-> TRUE, msg |-> q[Len(q)]]

\* The most recent stamp among the input goals' poses.
RECURSIVE MostRecent(_)
MostRecent(gs) ==
  IF gs = <<>> THEN 0 ELSE Max(gs[1].stamp, MostRecent(Tail(gs)))

\* A tick that writes the kept update whatever its stamp.
UpdatedGoalUnchecked(goal, last) == IF last.set THEN last.msg ELSE goal

\* What a tick writes to output_goal: the kept update unless it is older than
\* the input goal.
UpdatedGoal(goal, last) ==
  IF last.set /\ last.msg.stamp >= goal.stamp THEN last.msg ELSE goal

\* What a tick writes to output_goals.
UpdatedGoals(goals, last) ==
  IF last.set /\ last.msg.stamp >= MostRecent(goals.goals) THEN last.msg ELSE goals

GuFrame == UNCHANGED <<ccVars, traceVars>>

\* goal_updater_pub->publish(goal_to_update)
PublishGoalUpdate ==
  /\ Len(goal_q) + Len(goals_q) < MaxQueue
  /\ \E m \in GoalUpdates : goal_q' = Append(goal_q, m)
  /\ heard_goal' = <<>>
  /\ heard_goals' = <<>>
  /\ UNCHANGED <<in_goal, in_goals, goals_q, last_goal_received,
                 last_goals_received, out_goal, out_goals, child, status>>
  /\ GuFrame

\* goals_updater_pub->publish(goals_to_update)
PublishGoalsUpdate ==
  /\ Len(goal_q) + Len(goals_q) < MaxQueue
  /\ \E m \in GoalsUpdates : goals_q' = Append(goals_q, m)
  /\ heard_goal' = <<>>
  /\ heard_goals' = <<>>
  /\ UNCHANGED <<in_goal, in_goals, goal_q, last_goal_received,
                 last_goals_received, out_goal, out_goals, child, status>>
  /\ GuFrame

\* tree_->rootNode()->executeTick(): the queued updates are delivered, the
\* outputs are written, the child is ticked and its status returned.
Tick ==
  /\ last_goal_received' = callback_updated_goal(last_goal_received, goal_q)
  /\ last_goals_received' = callback_updated_goal(last_goals_received, goals_q)
  /\ heard_goal' = goal_q
  /\ heard_goals' = goals_q
  /\ goal_q' = <<>>
  /\ goals_q' = <<>>
  /\ out_goal' = [set |-> TRUE, msg |-> UpdatedGoal(in_goal, last_goal_received')]
  /\ out_goals' = [set |-> TRUE, msg |-> UpdatedGoals(in_goals, last_goals_received')]
  /\ \E c \in {"SUCCESS", "FAILURE", "RUNNING"} : child' = c /\ status' = c
  /\ UNCHANGED <<in_goal, in_goals>>
  /\ GuFrame

UpdaterIdle ==
  /\ goal_q = <<>>
  /\ goals_q = <<>>
  /\ last_goal_received = Unset(NoGoal)
  /\ last_goals_received = Unset(NoGoals)
  /\ heard_goal = <<>>
  /\ heard_goals = <<>>
  /\ out_goal = Unset(NoGoal)
  /\ out_goals = Unset(NoGoals)
  /\ child = "IDLE"
  /\ status = "IDLE"

\* The stamp of the goal on the blackboard: updates can be older, as old, or
\* newer.
GoalStamp == (MaxStamp + 1) \div 2

\* The tree is built and goal and goals are on the blackboard; the goals'
\* header stamp is the goal's or left unset.
UpdaterInit ==
  /\ in_goal = Goal(GoalStamp, 1)
  /\ \E h \in {0, GoalStamp} : in_goals = Goals(h, <<Goal(GoalStamp, 1)>>)
  /\ UpdaterIdle

UpdaterOff ==
  /\ in_goal = Goal(1, 1)
  /\ in_goals = Goals(1, <<Goal(1, 1)>>)
  /\ UpdaterIdle

\* ------------------------------------------------------------ specification

ProvidedFootprints(r) ==
  {[avail |-> FALSE, points |-> <<>>]}
  \cup {[avail |-> TRUE, points |-> transformFootprint(r.x, r.y, r.theta, s)] :
          s \in Shapes}

CallIdle ==
  /\ pc = "idle"
  /\ pose = Pose(0, 0, 0)
  /\ footprint = <<>>
  /\ i = 0
  /\ closing = FALSE
  /\ line = NoLine
  /\ line_cost = 0
  /\ footprint_cost = 0
  /\ outcome = NoOutcome
  /\ result = "none"
  /\ asked = {}
  /\ failed = "none"
  /\ reads = <<>>
  /\ costmap_ = NoCostmap
  /\ log = <<>>

\* The collision checker with its collaborators in any state, no call running.
CheckerInit ==
  /\ costmap \in Costmaps
  /\ published = 0
  /\ robot \in RobotPoses
  /\ tfOk \in BOOLEAN
  /\ provided \in ProvidedFootprints(robot)
  /\ CallIdle

\* The collision checker left alone.
CheckerOff ==
  /\ published = 0
  /\ robot = Pose(0, 0, 0)
  /\ tfOk = TRUE
  /\ provided = [avail |-> FALSE, points |-> <<>>]
  /\ CallIdle

TraceOff ==
  /\ seg = [x0 |-> 0, y0 |-> 0, x1 |-> 0, y1 |-> 0]
  /\ tdir = "done"
  /\ tline = NoLine
  /\ tcost = 0
  /\ fwd = <<>>
  /\ bwd = <<>>
  /\ fwdCost = -1
  /\ bwdCost = -1

Init ==
  /\ CheckerInit
  /\ TraceOff
  /\ UpdaterOff

Next ==
  \/ Call
  \/ ScorePoseBegin
  \/ GetFootprint
  \/ UnorientAndProject
  \/ EdgeBegin
  \/ EdgeUndefined
  \/ LinePoint
  \/ LineEnd
  \/ IsCollisionFreeReturn
  \/ CallOver

Spec == Init /\ [][Next]_vars

\* The collision checker while the costmap provider goes on publishing.
InitUpdate ==
  /\ costmap \in PublishedCostmaps
  /\ published = 0
  /\ robot \in RobotPoses
  /\ tfOk \in BOOLEAN
  /\ provided \in ProvidedFootprints(robot)
  /\ CallIdle
  /\ TraceOff
  /\ UpdaterOff

NextUpdate ==
  \/ Call
  \/ ScorePoseBegin
  \/ GetFootprint
  \/ UnorientAndProject
  \/ EdgeBegin
  \/ EdgeUndefined
  \/ LinePoint
  \/ LineEnd
  \/ IsCollisionFreeReturn
  \/ CallOver
  \/ CostmapUpdate

SpecUpdate == InitUpdate /\ [][NextUpdate]_vars

\* lineCost run on every segment of the grid, forward and back.
Segments ==
  {[x0 |-> a[1], y0 |-> a[2], x1 |-> b[1], y1 |-> b[2]] : a \in Cells, b \in Cells}

TraceInit ==
  /\ seg \in Segments
  /\ tdir = "fwd"
  /\ tline = lineCostIterator(seg.x0, seg.x1, seg.y0, seg.y1)
  /\ tcost = 0
  /\ fwd = <<>>
  /\ bwd = <<>>
  /\ fwdCost = -1
  /\ bwdCost = -1

InitLine ==
  /\ costmap \in Costmaps
  /\ CheckerOff
  /\ TraceInit
  /\ UpdaterOff

NextLine ==
  \/ TracePoint
  \/ TraceEnd

SpecLine == InitLine /\ [][NextLine]_vars

InitGoalUpdater ==
  /\ costmap = FreeMap
  /\ CheckerOff
  /\ TraceOff
  /\ UpdaterInit

NextGoalUpdater ==
  \/ PublishGoalUpdate
  \/ PublishGoalsUpdate
  \/ Tick

SpecGoalUpdater == InitGoalUpdater /\ [][NextGoalUpdater]_vars

\* ------------------------------------------------------------ vocabulary of the claims

Sentinels == {LETHAL_OBSTACLE, NO_INFORMATION}

Ended == pc \in {"scorePoseDone", "returned"}

\* scorePose got past the de-orient/project step: footprint is the projected one.
Projected == "robotPose" \in asked /\ failed # "robotPose"

OnGrid(p) == worldToMap(p[1], p[2]).ok
CellOf(p) == <<worldToMap(p[1], p[2]).x, worldToMap(p[1], p[2]).y>>
AllOnGrid(fp) == \A k \in 1 .. Len(fp) : OnGrid(fp[k])

\* Edge k of a closed polygon of n vertices: k -> k+1, the last one back to 1.
EdgeTo(fp, k) == fp[(k % Len(fp)) + 1]
EdgeCells(fp, k) ==
  LET a == CellOf(fp[k])
      b == CellOf(EdgeTo(fp, k))
  IN  LineCells(a[1], a[2], b[1], b[2])

Range(seq) == {seq[k] : k \in 1 .. Len(seq)}

\* The cells rasterized for the edges whose two ends are on the grid.
BoundaryCells(fp) ==
  UNION {Range(EdgeCells(fp, k)) :
           k \in {e \in 1 .. Len(fp) : OnGrid(fp[e]) /\ OnGrid(EdgeTo(fp, e))}}

\* The cells of the whole boundary walk in edge order (all vertices on grid).
RECURSIVE WalkFrom(_, _)
WalkFrom(fp, k) ==
  IF k > Len(fp) THEN <<>> ELSE EdgeCells(fp, k) \o WalkFrom(fp, k + 1)
WalkCells(fp) == WalkFrom(fp, 1)

MaxOf(S) == CHOOSE m \in S : \A x \in S : x <= m
BoundaryCosts(fp) == {costmap[c] : c \in BoundaryCells(fp)}
HasSentinel(fp) == BoundaryCosts(fp) \cap Sentinels # {}

\* ------------------------------------------------------------ C1

\* C1: isCollisionFree returns true exactly when scorePose returned a score,
\* returns false when scorePose threw IllegalTrajectory or PlannerException,
\* and every score scorePose returns is >= 0.
C1_ResultFollowsOutcome ==
  /\ Ended /\ outcome.kind = "score" => outcome.val >= 0
  /\ pc = "returned" =>
       /\ (result = "true") <=> (outcome.kind = "score")
       /\ outcome.kind \in {"IllegalTrajectory", "PlannerException"}
            => result = "false"

C1_Witness ==
  /\ pc = "returned"
  /\ outcome.kind = "PlannerException"
  /\ result = "false"

\* ------------------------------------------------------------ C2

\* C2 as stated: a LETHAL cell on the rasterized boundary always gives
\* IllegalTrajectory "Trajectory Hits Obstacle." (stated here for the calls in
\* which every lookup succeeded and every vertex is on the grid).
C2_Original ==
  (/\ pc = "returned" /\ failed = "none" /\ Projected
   /\ Len(footprint) > 0 /\ AllOnGrid(footprint)
   /\ LETHAL_OBSTACLE \in BoundaryCosts(footprint))
  => /\ outcome = IllegalTrajectory("Trajectory Hits Obstacle.")
     /\ result = "false"

SentinelMsg(cost) ==
  IF cost = LETHAL_OBSTACLE THEN "Trajectory Hits Obstacle."
                            ELSE "Trajectory Hits Unknown Region."

\* Index of the first sentinel cell of a walk.
FirstSentinel(w) ==
  CHOOSE k \in 1 .. Len(w) :
    /\ costmap[w[k]] \in Sentinels
    /\ \A j \in 1 .. k - 1 : costmap[w[j]] \notin Sentinels

\* C2, amended: a pose whose rasterized boundary holds a LETHAL or
\* NO_INFORMATION cell never gets a score, and isCollisionFree never returns
\* true for it; reading a LETHAL cell throws "Trajectory Hits Obstacle.",
\* reading a NO_INFORMATION cell "Trajectory Hits Unknown Region."; with all
\* vertices on the grid and every lookup answered, the walk stops at the first
\* sentinel cell in walk order and that cell decides the message.
C2_SentinelNeverScored ==
  Ended /\ Projected /\ Len(footprint) > 0 =>
    /\ HasSentinel(footprint) => outcome.kind # "score" /\ result # "true"
    /\ \A k \in 1 .. Len(reads) :
         costmap[reads[k]] \in Sentinels =>
           /\ k = Len(reads)
           /\ outcome = IllegalTrajectory(SentinelMsg(costmap[reads[k]]))
    /\ (failed = "none" /\ AllOnGrid(footprint) /\ HasSentinel(footprint)) =>
         LET w == WalkCells(footprint)
             f == FirstSentinel(w)
         IN  /\ reads = SubSeq(w, 1, f)
             /\ outcome = IllegalTrajectory(SentinelMsg(costmap[w[f]]))
             /\ pc = "returned" => result = "false"

\* Both sentinels on the boundary, the unknown cell read first.
C2_Witness ==
  /\ pc = "returned" /\ failed = "none" /\ Projected
  /\ AllOnGrid(footprint)
  /\ Sentinels \subseteq BoundaryCosts(footprint)
  /\ outcome = IllegalTrajectory("Trajectory Hits Unknown Region.")
  /\ result = "false"

\* ------------------------------------------------------------ C3

\* C3: with every collaborator available, the pose and every projected vertex
\* on the grid and no sentinel on the rasterized boundary, scorePose returns
\* exactly the maximum cost over the cells of all edges, closing edge
\* included (a footprint of at least one vertex); cells off the boundary do
\* not matter.
C3_ScoreIsBoundaryMax ==
  (/\ Ended /\ failed = "none" /\ Projected
   /\ Len(footprint) > 0 /\ AllOnGrid(footprint)
   /\ ~HasSentinel(footprint))
  => outcome = Score(MaxOf(BoundaryCosts(footprint)))

\* A score above 0 that is the larger of two graded boundary costs, with a
\* LETHAL cell off the boundary.
C3_Witness ==
  /\ pc = "returned" /\ failed = "none" /\ Projected
  /\ outcome.kind = "score"
  /\ GradedCosts \subseteq BoundaryCosts(footprint)
  /\ outcome.val = 253

\* A LETHAL cell enclosed by the boundary and on no edge: the pose is scored.
C3_InteriorWitness ==
  /\ pc = "returned" /\ outcome.kind = "score" /\ result = "true"
  /\ \E c \in Cells \ BoundaryCells(footprint) : costmap[c] = LETHAL_OBSTACLE

\* ------------------------------------------------------------ C4

\* C4: when the candidate pose does not convert to a grid cell, scorePose
\* throws IllegalTrajectory "Trajectory Goes Off Grid." and isCollisionFree
\* returns false; neither the footprint nor the robot pose has been requested
\* by then, so their being unavailable changes nothing.
C4_OffGridPoseFirst ==
  (/\ Ended /\ "costmap" \in asked /\ failed # "costmap"
   /\ ~worldToMap(pose.x, pose.y).ok)
  => /\ outcome = IllegalTrajectory("Trajectory Goes Off Grid.")
     /\ asked = {"costmap"}
     /\ pc = "returned" => result = "false"

\* An off-grid pose with no footprint and a failing pose lookup.
C4_Witness ==
  /\ pc = "returned"
  /\ ~worldToMap(pose.x, pose.y).ok
  /\ ~provided.avail /\ ~tfOk
  /\ outcome = IllegalTrajectory("Trajectory Goes Off Grid.")
  /\ result = "false"

\* ------------------------------------------------------------ C5

\* C5: every collaborator unavailability met during a scorePose call surfaces
\* as PlannerException, and isCollisionFree returns false for it.
C5_UnavailableIsPlannerException ==
  pc = "returned" /\ failed # "none" =>
    outcome.kind = "PlannerException" /\ result = "false"

\* ------------------------------------------------------------ C6

\* C6, for a footprint of one vertex that lands on a cell of graded cost:
\* scorePose neither returns a score nor throws IllegalTrajectory or
\* PlannerException, and an error of another kind reaches isCollisionFree's
\* caller. (An empty footprint makes scorePose read out of bounds; nothing
\* definite can be said of it.)
C6_OneVertexFails ==
  (/\ pc = "returned" /\ failed = "none" /\ Projected
   /\ Len(provided.points) = 1
   /\ AllOnGrid(footprint) /\ ~HasSentinel(footprint))
  => /\ outcome.kind \notin {"score", "IllegalTrajectory", "PlannerException"}
     /\ result = "raised"

\* ------------------------------------------------------------ C8

\* C8: once scorePose has de-oriented the provided footprint with the robot
\* pose and projected it to a candidate pose equal to the robot pose, the
\* footprint it walks is the provided one, vertex for vertex; a score it then
\* returns is the provided footprint's boundary maximum.
C8_RoundTrip ==
  (Projected /\ pose = robot /\ pc # "idle") =>
    /\ Len(footprint) = Len(provided.points)
    /\ \A k \in 1 .. Len(footprint) : footprint[k] = provided.points[k]
    /\ (Ended /\ outcome.kind = "score") =>
         outcome.val = MaxOf(BoundaryCosts(provided.points))

\* A turned robot away from the origin, a footprint without rotational
\* symmetry, scored at the robot pose.
C8_Witness ==
  /\ pc = "returned" /\ Projected /\ pose = robot
  /\ robot.theta # 0
  /\ Len(footprint) = 3
  /\ footprint = provided.points
  /\ outcome.kind = "score"

\* ------------------------------------------------------------ C7

Reverse(q) == [k \in 1 .. Len(q) |-> q[Len(q) + 1 - k]]
NoRepeats(q) == \A j, k \in 1 .. Len(q) : j # k => q[j] # q[k]

SegFrom == <<seg.x0, seg.y0>>
SegTo == <<seg.x1, seg.y1>>
SegMajor == Max(Abs(seg.x1 - seg.x0), Abs(seg.y1 - seg.y0))
SegMinor == IF Abs(seg.x1 - seg.x0) = SegMajor
              THEN Abs(seg.y1 - seg.y0) ELSE Abs(seg.x1 - seg.x0)

\* The segment passes exactly midway between two cells at some step: an even
\* major delta d and a step j with j * minor = d/2 (mod d).
HasTie ==
  /\ SegMajor > 0
  /\ SegMajor % 2 = 0
  /\ \E j \in 1 .. SegMajor : (j * SegMinor) % SegMajor = SegMajor \div 2

Last(q) == q[Len(q)]

C11_SingleSnapshot ==
  \A k \in 1 .. Len(log) : log[k].on = costmap_.id

\* ------------------------------------------------------------ C12

\* A call the boundary walk is expected to make, and the message it fails with.
WalkOp(op, arg, msg) == [op |-> op, arg |-> arg, msg |-> msg]

\* The calls of the boundary walk from edge k on, in edge order: for each edge
\* its first end, its second end, its cells from start to end; nothing after a
\* vertex off the grid.
RECURSIVE WalkOpsFrom(_, _)
WalkOpsFrom(fp, k) ==
  IF k > Len(fp) THEN <<>>
  ELSE LET from == WalkOp("worldToMap", fp[k],
                          IF k < Len(fp) THEN "Footprint Goes Off Grid at map."
                                         ELSE "Footprint Goes Off Grid.")
           to == WalkOp("worldToMap", EdgeTo(fp, k), "Footprint Goes Off Grid.")
       IN  IF ~OnGrid(fp[k]) THEN <<from>>
           ELSE IF ~OnGrid(EdgeTo(fp, k)) THEN <<from, to>>
           ELSE LET cells == EdgeCells(fp, k)
                IN  <<from, to>>
                    \o [j \in 1 .. Len(cells) |->
                          WalkOp("getCost", cells[j], SentinelMsg(costmap[cells[j]]))]
                    \o WalkOpsFrom(fp, k + 1)
WalkOps(fp) == WalkOpsFrom(fp, 1)

\* The calls the walk has made so far: the log after the pose's conversion.
WalkLog == Tail(log)

\* C12: the boundary walk makes its grid conversions and cost lookups in edge
\* order without skipping any; a failed vertex conversion or a LETHAL or
\* NO_INFORMATION cell is the last call the walk makes, and scorePose ends
\* with IllegalTrajectory and that failure's message; a score is returned only
\* after the whole walk.
C12_StopsAtFirstFailure ==
  Projected /\ Len(footprint) > 0 =>
    LET w == WalkOps(footprint)
        l == WalkLog
        n == Len(l)
    IN  /\ n <= Len(w)
        /\ \A k \in 1 .. n :
             /\ l[k].op = w[k].op
             /\ l[k].arg = w[k].arg
             /\ ~l[k].ok =>
                  /\ k = n
                  /\ Ended
                  /\ outcome = IllegalTrajectory(w[k].msg)
        /\ Ended /\ outcome.kind = "score" => n = Len(w)
        /\ Ended /\ outcome.kind = "IllegalTrajectory" => n > 0 /\ ~l[n].ok

\* The walk was cut short on its second edge or later by a sentinel cell, with
\* calls of the walk still to come.
C12_Witness ==
  /\ pc = "returned" /\ Projected
  /\ i >= 1
  /\ WalkLog # <<>>
  /\ Last(WalkLog).op = "getCost" /\ ~Last(WalkLog).ok
  /\ Len(WalkLog) < Len(WalkOps(footprint))
  /\ outcome.kind = "IllegalTrajectory" /\ result = "false"

====
